---- MODULE Spec2Model ----
(***************************************************************************)
(* Model of autofix.py: workspace detection, the command executor, the     *)
(* per-ecosystem setup and formatting strategies, and the orchestration    *)
(* done by main().                                                         *)
(*                                                                         *)
(* The environment the program reads is part of the state: the files that  *)
(* exist in the working directory, the tools that answer "<tool>           *)
(* --version", and what the two manifests the program parses hold.  The    *)
(* outcome of every child process is an input of the action that issues it.*)
(* Python's three ways of leaving a function that returns bool are kept    *)
(* apart as "True", "False" and "raise" (an exception leaves the function).*)
(***************************************************************************)
EXTENDS Integers, Sequences, FiniteSets, TLC

VARIABLES
    config,     \* RuntimeConfig: dry_run, verbose, is_windows
    files,      \* paths that exist in the working directory
    tools,      \* commands for which "<cmd> --version" exits zero
    pkgjson,    \* what package.json holds ("absent" when it does not exist)
    pubspec,    \* what pubspec.yaml holds ("absent" when it does not exist)
    pc,         \* position of main(): idle, setup, format, exit, done
    detected,   \* main's `detected` list
    setupLog,   \* setup strategies invoked by main so far, with their results
    fmtLog,     \* formatting strategies invoked by format_all, with results
    success,    \* main's `success`
    exitCode,   \* exit status of the process, -1 while it runs
    issued,     \* number of CommandRunner.execute calls made so far
    spawned,    \* number of subprocess.run calls made by execute so far
    createLog,  \* one entry per venv-creation command issued by setup_python
    runs,       \* number of calls made so far (bounded)
    last        \* the last call: function, arguments seen, result

vars == <<config, files, tools, pkgjson, pubspec, pc, detected, setupLog,
          fmtLog, success, exitCode, issued, spawned, createLog, runs, last>>

(***************************************************************************)
(* Bounds                                                                  *)
(***************************************************************************)
MaxRuns == 2

(***************************************************************************)
(* Sequence helpers                                                        *)
(***************************************************************************)
Range(s) == {s[i] : i \in 1..Len(s)}

Names(log) == [i \in 1..Len(log) |-> log[i].name]

IsPrefix(s, t) == Len(s) <= Len(t) /\ \A i \in 1..Len(s) : s[i] = t[i]

(***************************************************************************)
(* Static tables                                                           *)
(***************************************************************************)
\* dict order is insertion order: node, python, rust, flutter, git
PROJECT_DETECTORS ==
    << [lang |-> "node",    files |-> <<"package.json">>],
       [lang |-> "python",  files |-> <<"requirements.txt", "pyproject.toml", "setup.py">>],
       [lang |-> "rust",    files |-> <<"Cargo.toml">>],
       [lang |-> "flutter", files |-> <<"pubspec.yaml">>],
       [lang |-> "git",     files |-> <<".git">>] >>

VENV_PATHS ==
    [windows |-> [python |-> "Scripts/python.exe", pip |-> "Scripts/pip.exe"],
     unix    |-> [python |-> "bin/python",         pip |-> "bin/pip"]]

venv_paths(cfg) == IF cfg.is_windows THEN VENV_PATHS.windows ELSE VENV_PATHS.unix

\* pathlib.Path(".venv") / venv_paths[...]: the two interpreter paths
VenvPython(cfg) ==
    IF venv_paths(cfg).python = "Scripts/python.exe"
    THEN ".venv/Scripts/python.exe" ELSE ".venv/bin/python"

VenvPip(cfg) ==
    IF venv_paths(cfg).pip = "Scripts/pip.exe"
    THEN ".venv/Scripts/pip.exe" ELSE ".venv/bin/pip"

Configs == [dry_run : BOOLEAN, verbose : BOOLEAN, is_windows : BOOLEAN]

\* How a child process started by subprocess.run(check=True) can end:
\* exit zero, CalledProcessError, FileNotFoundError, any other exception
\* (PermissionError, NotADirectoryError, UnicodeDecodeError of text=True).
\* Which of them a given command meets depends on the machine (a str command
\* run without a shell, as on POSIX, is looked up as one program name); every
\* call may meet any of them here.
Outcomes == {"ok", "nonzero", "notfound", "oserror"}

\* A command is a str or a list of str; text is its ' '.join display form.
StrCmd(t)  == [list |-> FALSE, text |-> t]
ListCmd(t) == [list |-> TRUE, text |-> t]

(***************************************************************************)
(* CommandRunner                                                           *)
(***************************************************************************)
prepare_command(cfg, cmd) ==
    IF cfg.is_windows /\ cmd.list THEN StrCmd(cmd.text) ELSE cmd

handle_error(cfg, cmd) ==
    IF cfg.verbose THEN "failed: code and full stderr" ELSE "failed: last stderr line"

execute_nodry(cfg, cmd, cwd, o) ==
    LET shell_cmd == prepare_command(cfg, cmd)
    IN  [cmd     |-> shell_cmd,
         shell   |-> cfg.is_windows,
         cwd     |-> cwd,
         spawned |-> 1,
         ret     |-> CASE o = "ok"       -> "True"
                       [] o = "nonzero"  -> "False"
                       [] o = "notfound" -> "False"
                       [] OTHER          -> "raise",
         msg     |-> CASE o = "ok"       -> IF cfg.verbose THEN "running, output" ELSE "none"
                       [] o = "nonzero"  -> handle_error(cfg, cmd)
                       [] o = "notfound" -> "command not found"
                       [] OTHER          -> "traceback"]

\* execute without its dry-run branch
execute_always_runs(cfg, cmd, cwd, o) == execute_nodry(cfg, cmd, cwd, o)

execute(cfg, cmd, cwd, o) ==
    IF cfg.dry_run
    THEN [cmd |-> cmd, shell |-> FALSE, cwd |-> cwd, spawned |-> 0,
          ret |-> "True", msg |-> "dry"]
    ELSE execute_nodry(cfg, cmd, cwd, o)

\* Totals over the execute calls of one strategy
RECURSIVE SpawnSum(_)
SpawnSum(cmds) ==
    IF cmds = <<>> THEN 0 ELSE cmds[1].spawned + SpawnSum(Tail(cmds))

(***************************************************************************)
(* ProjectDetector                                                         *)
(***************************************************************************)
\* detection that asks for all of an ecosystem's markers instead of any
detect_languages_all(fs) ==
    LET every(e) == \A i \in 1..Len(e.files) : e.files[i] \in fs
        sel      == SelectSeq(PROJECT_DETECTORS, every)
    IN  [i \in 1..Len(sel) |-> sel[i].lang]

detect_languages(fs) ==
    LET any(e) == \E i \in 1..Len(e.files) : e.files[i] \in fs
        sel    == SelectSeq(PROJECT_DETECTORS, any)
    IN  [i \in 1..Len(sel) |-> sel[i].lang]

has_command(tl, cmd) == cmd \in tl

\* the lockfile table with npm's lockfile tried first
lock_files_npm_first ==
    << [file |-> "package-lock.json", pm |-> "npm"],
       [file |-> "pnpm-lock.yaml", pm |-> "pnpm"],
       [file |-> "yarn.lock", pm |-> "yarn"] >>

lock_files ==
    << [file |-> "pnpm-lock.yaml", pm |-> "pnpm"],
       [file |-> "yarn.lock", pm |-> "yarn"],
       [file |-> "package-lock.json", pm |-> "npm"] >>

fallback_pms == <<"npm", "pnpm", "yarn">>

\* next((pm for pm in [...] if _has_command(pm)), None)
RECURSIVE first_available(_, _)
first_available(pms, tl) ==
    IF pms = <<>> THEN "None"
    ELSE IF has_command(tl, pms[1]) THEN pms[1]
    ELSE first_available(Tail(pms), tl)

\* the for loop over lock_files, then the fallback
RECURSIVE pm_loop(_, _, _)
pm_loop(locks, fs, tl) ==
    IF locks = <<>> THEN first_available(fallback_pms, tl)
    ELSE IF locks[1].file \in fs /\ has_command(tl, locks[1].pm) THEN locks[1].pm
    ELSE pm_loop(Tail(locks), fs, tl)

get_package_manager(fs, tl) == pm_loop(lock_files, fs, tl)

(***************************************************************************)
(* Manifest readers                                                        *)
(***************************************************************************)
\* What package.json may hold, by what json.loads(read_text()) and
\* "format" in pkg_data.get("scripts", {}) do with it.
PkgKinds == {"with_format",   \* object, scripts is a mapping holding "format"
             "no_format",     \* object, scripts is a mapping without "format"
             "no_scripts",    \* object without scripts
             "malformed",     \* json.JSONDecodeError
             "unreadable",    \* OSError from read_text()
             "undecodable",   \* UnicodeDecodeError from read_text()
             "not_object",    \* a JSON list: no attribute get
             "scripts_null"}  \* scripts is null: "format" in None

has_npm_format_script(fs, pk) ==
    IF "package.json" \notin fs THEN "False"
    ELSE CASE pk = "with_format"                 -> "True"
           [] pk \in {"no_format", "no_scripts"} -> "False"
           [] pk \in {"malformed", "unreadable"} -> "False"   \* except clause
           [] OTHER                              -> "raise"   \* not caught

\* What pubspec.yaml may hold, by what "build_runner:" in read_text() does.
PubKinds == {"with_build_runner", "plain", "unreadable", "undecodable"}

has_build_runner(cfg, fs, pub) ==
    IF "pubspec.yaml" \notin fs \/ cfg.dry_run THEN "False"
    ELSE CASE pub = "with_build_runner" -> "True"
           [] pub = "plain"             -> "False"
           [] pub = "unreadable"        -> "False"   \* except (IOError, OSError)
           [] OTHER                     -> "raise"   \* UnicodeDecodeError

(***************************************************************************)
(* ProjectSetup: every strategy yields its result, the execute calls it    *)
(* made in order, and the files that exist afterwards.  o is the sequence  *)
(* of outcomes of the child processes it starts, in the order started.     *)
(***************************************************************************)
VenvCmd == ListCmd("python -m venv .venv")

\* a venv-creation command that really ran and exited zero leaves .venv
\* with the platform's interpreter and installer in it
venv_made(cfg, fs) == fs \cup {".venv", VenvPython(cfg), VenvPip(cfg)}

install_python_deps(cfg, fs, o) ==
    IF "requirements.txt" \in fs
    THEN LET e == execute(cfg, ListCmd("<venv pip> install -r requirements.txt"), "None", o)
         IN  [ret |-> e.ret, cmds |-> <<e>>]
    ELSE IF "pyproject.toml" \in fs
    THEN LET e == execute(cfg, ListCmd("<venv pip> install -e ."), "None", o)
         IN  [ret |-> e.ret, cmds |-> <<e>>]
    ELSE [ret |-> "True", cmds |-> <<>>]

\* setup_python without the `if not venv_dir.exists()` test
setup_python_recreates(cfg, fs, o) ==
    LET e1  == execute(cfg, VenvCmd, "None", o[1])
        fs1 == IF e1.spawned = 1 /\ e1.ret = "True" THEN venv_made(cfg, fs) ELSE fs
        d   == install_python_deps(cfg, fs1, o[2])
    IN  IF e1.ret # "True"
        THEN [ret |-> e1.ret, cmds |-> <<e1>>, files |-> fs1]
        ELSE [ret |-> d.ret, cmds |-> <<e1>> \o d.cmds, files |-> fs1]

setup_python(cfg, fs, o) ==
    IF ".venv" \notin fs
    THEN LET e1  == execute(cfg, VenvCmd, "None", o[1])
             fs1 == IF e1.spawned = 1 /\ e1.ret = "True" THEN venv_made(cfg, fs) ELSE fs
             d   == install_python_deps(cfg, fs1, o[2])
         IN  IF e1.ret # "True"
             THEN [ret |-> e1.ret, cmds |-> <<e1>>, files |-> fs1]
             ELSE [ret |-> d.ret, cmds |-> <<e1>> \o d.cmds, files |-> fs1]
    ELSE LET d == install_python_deps(cfg, fs, o[1])
         IN  [ret |-> d.ret, cmds |-> d.cmds, files |-> fs]

InstallCmd(pm) ==
    CASE pm = "npm"  -> StrCmd("npm install")
      [] pm = "pnpm" -> StrCmd("pnpm install")
      [] OTHER       -> StrCmd("yarn install")

\* setup_node that returns the clean install's result, with no fallback
setup_node_no_fallback(cfg, fs, tl, o) ==
    LET pm == get_package_manager(fs, tl)
    IN  IF pm = "None" THEN [ret |-> "False", cmds |-> <<>>, files |-> fs]
        ELSE IF pm = "npm" /\ "package-lock.json" \in fs
        THEN LET e1 == execute(cfg, StrCmd("npm ci"), "None", o[1])
             IN  [ret |-> e1.ret, cmds |-> <<e1>>, files |-> fs]
        ELSE LET e == execute(cfg, InstallCmd(pm), "None", o[1])
             IN  [ret |-> e.ret, cmds |-> <<e>>, files |-> fs]

setup_node(cfg, fs, tl, o) ==
    LET pm == get_package_manager(fs, tl)
    IN  IF pm = "None" THEN [ret |-> "False", cmds |-> <<>>, files |-> fs]
        ELSE IF pm = "npm" /\ "package-lock.json" \in fs
        THEN LET e1 == execute(cfg, StrCmd("npm ci"), "None", o[1])
                 e2 == execute(cfg, InstallCmd(pm), "None", o[2])
             IN  IF e1.ret = "False"
                 THEN [ret |-> e2.ret, cmds |-> <<e1, e2>>, files |-> fs]
                 ELSE [ret |-> e1.ret, cmds |-> <<e1>>, files |-> fs]
        ELSE LET e == execute(cfg, InstallCmd(pm), "None", o[1])
             IN  [ret |-> e.ret, cmds |-> <<e>>, files |-> fs]

setup_rust(cfg, fs, tl, o) ==
    IF ~has_command(tl, "cargo") THEN [ret |-> "False", cmds |-> <<>>, files |-> fs]
    ELSE LET e == execute(cfg, ListCmd("cargo fetch"), "None", o[1])
         IN  [ret |-> e.ret, cmds |-> <<e>>, files |-> fs]

\* Python's `a &= b` on two bools
AndRet(a, b) == IF a = "True" /\ b = "True" THEN "True" ELSE "False"

BuildRunnerCmd ==
    StrCmd("flutter packages pub run build_runner build --delete-conflicting-outputs")

setup_flutter(cfg, fs, tl, pub, o) ==
    IF ~has_command(tl, "flutter") THEN [ret |-> "False", cmds |-> <<>>, files |-> fs]
    ELSE LET e1 == execute(cfg, StrCmd("flutter pub get"), "None", o[1])
             hb == has_build_runner(cfg, fs, pub)
             e2 == execute(cfg, BuildRunnerCmd, "None", o[2])
         IN  IF e1.ret = "raise" \/ hb = "raise"
             THEN [ret |-> "raise", cmds |-> <<e1>>, files |-> fs]
             ELSE IF hb = "True"
             THEN [ret   |-> IF e2.ret = "raise" THEN "raise" ELSE AndRet(e1.ret, e2.ret),
                   cmds  |-> <<e1, e2>>,
                   files |-> fs]
             ELSE [ret |-> e1.ret, cmds |-> <<e1>>, files |-> fs]

get_python_executable(cfg, fs) ==
    IF VenvPython(cfg) \in fs THEN "<venv python>" ELSE "sys.executable"

setup_git_hooks(cfg, fs, o) ==
    IF ".pre-commit-config.yaml" \notin fs
    THEN [ret |-> "True", cmds |-> <<>>, files |-> fs]
    ELSE LET python_cmd == get_python_executable(cfg, fs)
             e == execute(cfg,
                          IF python_cmd = "<venv python>"
                          THEN ListCmd("<venv python> -m pre_commit install")
                          ELSE ListCmd("python -m pre_commit install"),
                          "None", o[1])
         IN  [ret |-> e.ret, cmds |-> <<e>>, files |-> fs]

\* main's setup_methods dispatch table
setup_methods(name, cfg, fs, tl, pub, o) ==
    CASE name = "python"  -> setup_python(cfg, fs, o)
      [] name = "node"    -> setup_node(cfg, fs, tl, o)
      [] name = "rust"    -> setup_rust(cfg, fs, tl, o)
      [] name = "flutter" -> setup_flutter(cfg, fs, tl, pub, o)
      [] OTHER            -> setup_git_hooks(cfg, fs, o)

(***************************************************************************)
(* CodeFormatter                                                           *)
(***************************************************************************)
\* subprocess.run([python_exe, "-c", "import <package>"], check=True)
has_python_package(p) ==
    CASE p = "ok"                      -> "True"
      [] p \in {"nonzero", "notfound"} -> "False"
      [] OTHER                         -> "raise"

\* pr: outcomes of the ruff and the black import probes; o: of the formatter
format_python(cfg, fs, pr, o) ==
    IF VenvPython(cfg) \notin fs THEN [ret |-> "True", cmds |-> <<>>]
    ELSE LET ruff  == has_python_package(pr[1])
             black == has_python_package(pr[2])
             e1 == execute(cfg, ListCmd("<venv python> -m ruff format ."), "None", o)
             e2 == execute(cfg, ListCmd("<venv python> -m black ."), "None", o)
         IN  CASE ruff = "raise"  -> [ret |-> "raise", cmds |-> <<>>]
               [] ruff = "True"   -> [ret |-> e1.ret, cmds |-> <<e1>>]
               [] black = "raise" -> [ret |-> "raise", cmds |-> <<>>]
               [] black = "True"  -> [ret |-> e2.ret, cmds |-> <<e2>>]
               [] OTHER           -> [ret |-> "True", cmds |-> <<>>]

prettier_configs == {".prettierrc", "prettier.config.js", ".prettierrc.json"}

format_node(cfg, fs, pk, o) ==
    LET h  == has_npm_format_script(fs, pk)
        e1 == execute(cfg, StrCmd("npm run format"), "None", o)
        e2 == execute(cfg, StrCmd("npx prettier --write ."), "None", o)
    IN  CASE h = "raise" -> [ret |-> "raise", cmds |-> <<>>]
          [] h = "True"  -> [ret |-> e1.ret, cmds |-> <<e1>>]
          [] OTHER       -> IF prettier_configs \cap fs # {}
                            THEN [ret |-> e2.ret, cmds |-> <<e2>>]
                            ELSE [ret |-> "True", cmds |-> <<>>]

format_flutter(cfg, o) ==
    LET e == execute(cfg, StrCmd("dart format ."), "None", o)
    IN  [ret |-> e.ret, cmds |-> <<e>>]

\* one `if "<name>" in detected_languages: success &= self._format_<name>()`
\* acc: what format_all has done so far; r: what this formatter does
format_step(acc, det, name, r) ==
    IF acc.ret = "raise" \/ name \notin Range(det) THEN acc
    ELSE [ret  |-> IF r.ret = "raise" THEN "raise" ELSE AndRet(acc.ret, r.ret),
          log  |-> Append(acc.log, [name |-> name, ret |-> r.ret]),
          cmds |-> acc.cmds \o r.cmds]

\* o[1], o[2], o[3]: outcomes of the python, node and flutter formatter commands
format_all(cfg, fs, pk, det, pr, o) ==
    LET a0 == [ret |-> "True", log |-> <<>>, cmds |-> <<>>]
        a1 == format_step(a0, det, "python", format_python(cfg, fs, pr, o[1]))
        a2 == format_step(a1, det, "node", format_node(cfg, fs, pk, o[2]))
        a3 == format_step(a2, det, "flutter", format_flutter(cfg, o[3]))
    IN  a3

(***************************************************************************)
(* State machine                                                           *)
(***************************************************************************)
MarkerPaths == {"package.json", "requirements.txt", "pyproject.toml", "setup.py",
                "Cargo.toml", "pubspec.yaml", ".git"}

LockPaths == {"pnpm-lock.yaml", "yarn.lock", "package-lock.json"}

PackageManagers == {"npm", "pnpm", "yarn"}

VenvFiles(cfg) == {".venv", VenvPython(cfg), VenvPip(cfg)}

NoCall == [fn |-> "none", ret |-> "None", cmds |-> <<>>, pre |-> {}, prev |-> <<>>]

Call(fn, r, fs) == [fn |-> fn, ret |-> r.ret, cmds |-> r.cmds, pre |-> fs, prev |-> <<>>]

IsVenvCmd(e) == e.cmd.text = VenvCmd.text

\* the program has not started: nothing detected, logged, issued or spawned
InitRun ==
    /\ pc = "idle"
    /\ detected = <<>>
    /\ setupLog = <<>>
    /\ fmtLog = <<>>
    /\ success = FALSE
    /\ exitCode = -1
    /\ issued = 0
    /\ spawned = 0
    /\ createLog = <<>>
    /\ runs = 0
    /\ last = NoCall

\* a working directory holding some of the paths F, with or without a virtual
\* environment, a machine with one of the tool sets TS, manifests of the kinds PK
\* and PUB, flags parsed to one of C
InitEnv(F, TS, PK, PUB, C) ==
    /\ config \in C
    /\ files \in {m \cup v : m \in SUBSET F, v \in {{}, VenvFiles(config)}}
    /\ tools \in TS
    /\ pkgjson \in (IF "package.json" \in files THEN PK ELSE {"absent"})
    /\ pubspec \in (IF "pubspec.yaml" \in files THEN PUB ELSE {"absent"})

\* the outcomes to choose from for a child process: one that the code cannot
\* start (dry-run, formatter of an ecosystem not detected) has none, and its
\* input is fixed
OutcomesIf(started) == IF started THEN Outcomes ELSE {"ok"}

Formats(name) == name \in Range(detected)

\* what every strategy call does to the counters and the filesystem
Account(r) ==
    /\ issued' = issued + Len(r.cmds)
    /\ spawned' = spawned + SpawnSum(r.cmds)
    /\ createLog' = createLog \o SelectSeq(r.cmds, IsVenvCmd)
    /\ files' = r.files

NoRun == UNCHANGED <<pc, detected, setupLog, fmtLog, success, exitCode>>

NoEnv == UNCHANGED <<config, tools, pkgjson, pubspec>>

(***************************************************************************)
(* main()                                                                  *)
(***************************************************************************)
\* lines 223-227: detection, and the early return when nothing is found
Detect ==
    /\ pc = "idle"
    /\ detected' = detect_languages(files)
    /\ IF detected' = <<>>
       THEN pc' = "done" /\ exitCode' = 0
       ELSE pc' = "setup" /\ exitCode' = exitCode
    /\ last' = [fn |-> "detect_languages", ret |-> "None", cmds |-> <<>>,
                pre |-> files, prev |-> detected]
    /\ UNCHANGED <<files, setupLog, fmtLog, success, issued, spawned, createLog, runs>>
    /\ NoEnv

\* one turn of the generator consumed by all(): the next detected ecosystem's
\* setup strategy runs; all() stops at the first False, an exception ends main
SetupStep ==
    /\ pc = "setup"
    /\ Len(setupLog) < Len(detected)
    /\ \E o \in [1..2 -> OutcomesIf(~config.dry_run)] :
         LET name == detected[Len(setupLog) + 1]
             r    == setup_methods(name, config, files, tools, pubspec, o)
         IN  /\ setupLog' = Append(setupLog, [name |-> name, ret |-> r.ret])
             /\ last' = Call(name, r, files)
             /\ Account(r)
             /\ CASE r.ret = "raise" ->
                       pc' = "crashed" /\ exitCode' = 1 /\ success' = success
                  [] r.ret = "False" ->
                       pc' = "format" /\ exitCode' = exitCode /\ success' = FALSE
                  [] OTHER ->
                       IF Len(setupLog') = Len(detected)
                       THEN pc' = "format" /\ exitCode' = exitCode /\ success' = TRUE
                       ELSE pc' = "setup" /\ exitCode' = exitCode /\ success' = success
    /\ UNCHANGED <<detected, fmtLog, runs>>
    /\ NoEnv

\* line 235: success &= formatter.format_all(detected)
FormatAll ==
    /\ pc = "format"
    /\ \E pr \in [1..2 -> OutcomesIf(Formats("python") /\ VenvPython(config) \in files)],
          o1 \in OutcomesIf(Formats("python") /\ VenvPython(config) \in files /\ ~config.dry_run),
          o2 \in OutcomesIf(Formats("node") /\ ~config.dry_run),
          o3 \in OutcomesIf(Formats("flutter") /\ ~config.dry_run) :
         LET r == format_all(config, files, pkgjson, detected, pr, <<o1, o2, o3>>)
         IN  /\ fmtLog' = r.log
             /\ last' = Call("format_all", r, files)
             /\ Account([ret |-> r.ret, cmds |-> r.cmds, files |-> files])
             /\ IF r.ret = "raise"
                THEN pc' = "crashed" /\ exitCode' = 1 /\ success' = success
                ELSE pc' = "exit" /\ exitCode' = exitCode
                     /\ success' = (success /\ r.ret = "True")
    /\ UNCHANGED <<detected, setupLog, runs>>
    /\ NoEnv

\* lines 236-246: the banner; sys.exit(1) unless success
Finish ==
    /\ pc = "exit"
    /\ pc' = "done"
    /\ exitCode' = IF success THEN 0 ELSE 1
    /\ UNCHANGED <<files, detected, setupLog, fmtLog, success, issued, spawned,
                   createLog, runs, last>>
    /\ NoEnv

\* One run of the program (without --help, which exits in parse_arguments
\* before anything is constructed).
MainPaths == {"package.json", "requirements.txt", "Cargo.toml", "pubspec.yaml", ".git",
              ".pre-commit-config.yaml"}

AllTools == {"npm", "pnpm", "yarn", "cargo", "flutter"}

Init ==
    /\ InitRun
    /\ InitEnv(MainPaths, {{}, AllTools},
               {"with_format", "no_scripts", "not_object"},
               {"with_build_runner", "plain"},
               {c \in Configs : ~c.verbose /\ ~c.is_windows})

Next == Detect \/ SetupStep \/ FormatAll \/ Finish

Spec == Init /\ [][Next]_vars

(***************************************************************************)
(* The components called on their own, each up to MaxRuns times in a row   *)
(***************************************************************************)
Called == pc = "idle" /\ runs < MaxRuns /\ runs' = runs + 1 /\ NoRun /\ NoEnv

CallExecute ==
    /\ Called
    /\ \E cmd \in {StrCmd("npm ci"), ListCmd("cargo fetch")},
          cwd \in {"None", "subdir"},
          o \in Outcomes :
         LET e == execute(config, cmd, cwd, o)
             r == [ret |-> e.ret, cmds |-> <<e>>, files |-> files]
         IN  last' = Call("execute", r, files) /\ Account(r)

CallHasNpmFormatScript ==
    /\ Called
    /\ LET r == [ret |-> has_npm_format_script(files, pkgjson), cmds |-> <<>>, files |-> files]
       IN  last' = Call("has_npm_format_script", r, files) /\ Account(r)

CallHasBuildRunner ==
    /\ Called
    /\ LET r == [ret |-> has_build_runner(config, files, pubspec), cmds |-> <<>>, files |-> files]
       IN  last' = Call("has_build_runner", r, files) /\ Account(r)

CallGetPackageManager ==
    /\ Called
    /\ LET r == [ret |-> get_package_manager(files, tools), cmds |-> <<>>, files |-> files]
       IN  last' = Call("get_package_manager", r, files) /\ Account(r)

CallSetupNode ==
    /\ Called
    /\ \E o \in [1..2 -> OutcomesIf(~config.dry_run)] :
         LET r == setup_node(config, files, tools, o)
         IN  last' = Call("setup_node", r, files) /\ Account(r)

CallSetupFlutter ==
    /\ Called
    /\ \E o \in [1..2 -> OutcomesIf(~config.dry_run)] :
         LET r == setup_flutter(config, files, tools, pubspec, o)
         IN  last' = Call("setup_flutter", r, files) /\ Account(r)

CallSetupPython ==
    /\ Called
    /\ \E o \in [1..2 -> OutcomesIf(~config.dry_run)] :
         LET r == setup_python(config, files, o)
         IN  last' = Call("setup_python", r, files) /\ Account(r)

CallDetect ==
    /\ pc = "idle" /\ runs < MaxRuns /\ runs' = runs + 1
    /\ detected' = detect_languages(files)
    /\ last' = [fn |-> "detect_languages", ret |-> "None", cmds |-> <<>>,
                pre |-> files, prev |-> detected]
    /\ UNCHANGED <<files, pc, setupLog, fmtLog, success, exitCode, issued, spawned,
                   createLog>>
    /\ NoEnv

\* the user drops a marker file into the working directory between two calls
AddMarker ==
    /\ pc = "idle"
    /\ \E f \in MarkerPaths \ files :
         /\ files' = files \cup {f}
         /\ pkgjson' = IF f = "package.json" THEN "no_scripts" ELSE pkgjson
         /\ pubspec' = IF f = "pubspec.yaml" THEN "plain" ELSE pubspec
    /\ UNCHANGED <<config, tools, issued, spawned, createLog, runs, last>>
    /\ NoRun

InitExec ==
    /\ InitRun
    /\ InitEnv({"package.json", "pubspec.yaml"}, {{}}, PkgKinds, PubKinds, Configs)

SpecExec ==
    InitExec /\ [][CallExecute \/ CallHasNpmFormatScript \/ CallHasBuildRunner]_vars

InitNode ==
    /\ InitRun
    /\ InitEnv(LockPaths, SUBSET PackageManagers, PkgKinds, PubKinds,
               {c \in Configs : ~c.verbose})

SpecNode == InitNode /\ [][CallGetPackageManager \/ CallSetupNode]_vars

InitFlutter ==
    /\ InitRun
    /\ InitEnv({"pubspec.yaml"}, {{}, {"flutter"}}, PkgKinds, PubKinds, Configs)

SpecFlutter == InitFlutter /\ [][CallSetupFlutter]_vars

InitPython ==
    /\ InitRun
    /\ InitEnv({"requirements.txt", "pyproject.toml", "setup.py"}, {{}},
               PkgKinds, PubKinds, Configs)

SpecPython == InitPython /\ [][CallSetupPython]_vars

InitDetect ==
    /\ InitRun
    /\ InitEnv(MarkerPaths, {{}}, {"no_scripts"}, {"plain"},
               {c \in Configs : ~c.verbose /\ ~c.dry_run})

SpecDetect == InitDetect /\ [][CallDetect \/ AddMarker]_vars

(***************************************************************************)
(* Properties                                                              *)
(***************************************************************************)

\* C1: when main's setup phase is over, every detected ecosystem's setup
\* strategy has been invoked exactly once, in particular those after one that
\* returned failure, and the aggregate is the AND of all their results.
C1_EverySetupInvoked ==
    pc = "format" =>
        /\ Names(setupLog) = detected
        /\ success = (\A i \in 1..Len(setupLog) : setupLog[i].ret = "True")

\* C2: with dry_run set, every execute call returns True and execute never
\* calls subprocess.run, whatever the command, the working directory, verbose,
\* the platform and the outcome the command would have had.
C2_DryRun ==
    config.dry_run =>
        /\ spawned = 0
        /\ last.fn = "execute" =>
             /\ last.ret = "True"
             /\ \A i \in 1..Len(last.cmds) : last.cmds[i].spawned = 0

C2_Witness ==
    /\ config.dry_run /\ config.verbose /\ config.is_windows
    /\ last.fn = "execute"
    /\ last.cmds[1].cmd.list
    /\ last.cmds[1].cwd = "subdir"
    /\ issued = 2

\* C3: get_package_manager returns pnpm if pnpm-lock.yaml exists and pnpm is
\* available; else yarn if yarn.lock exists and yarn is available; else npm if
\* package-lock.json exists and npm is available; else the first available of
\* npm, pnpm, yarn; else none.
C3_Precedence ==
    last.fn = "get_package_manager" =>
        last.ret =
            IF "pnpm-lock.yaml" \in files /\ "pnpm" \in tools THEN "pnpm"
            ELSE IF "yarn.lock" \in files /\ "yarn" \in tools THEN "yarn"
            ELSE IF "package-lock.json" \in files /\ "npm" \in tools THEN "npm"
            ELSE IF "npm" \in tools THEN "npm"
            ELSE IF "pnpm" \in tools THEN "pnpm"
            ELSE IF "yarn" \in tools THEN "yarn"
            ELSE "None"

C3_Witness ==
    /\ last.fn = "get_package_manager"
    /\ {"pnpm-lock.yaml", "package-lock.json"} \subseteq files
    /\ {"pnpm", "npm"} \subseteq tools
    /\ last.ret = "pnpm"

\* C4: the process exits with 1 iff an invoked setup or formatting strategy
\* returned failure and with 0 otherwise; with no marker present it exits 0
\* having invoked no strategy and executed no command.
C4_ExitStatus ==
    exitCode # -1 =>
        /\ exitCode = 1 <=>
             \/ \E i \in 1..Len(setupLog) : setupLog[i].ret = "False"
             \/ \E i \in 1..Len(fmtLog) : fmtLog[i].ret = "False"
        /\ exitCode \in {0, 1}
        /\ detected = <<>> =>
             exitCode = 0 /\ setupLog = <<>> /\ fmtLog = <<>> /\ issued = 0

\* C5: execute returns a boolean for every outcome of the external command,
\* and the two manifest readers return False for every manifest that is
\* absent, unreadable, undecodable, malformed or of an unexpected shape; none
\* of them lets an exception out.
C5_NeverRaises ==
    /\ last.fn = "execute" => last.ret \in {"True", "False"}
    /\ last.fn = "has_npm_format_script" =>
         /\ last.ret \in {"True", "False"}
         /\ pkgjson \notin {"with_format", "no_format", "no_scripts"} => last.ret = "False"
    /\ last.fn = "has_build_runner" =>
         /\ last.ret \in {"True", "False"}
         /\ pubspec \notin {"with_build_runner", "plain"} => last.ret = "False"

\* C6 as stated: with a package manager resolved, npm ci is attempted when the
\* manager is npm and package-lock.json exists, the generic install is issued
\* only when the clean install was not attempted, so one install command is
\* issued and its result is the strategy's; with none resolved the strategy
\* returns failure and executes nothing.
C6_SingleInstall ==
    last.fn = "setup_node" =>
        LET pm    == get_package_manager(files, tools)
            clean == pm = "npm" /\ "package-lock.json" \in files
        IN  IF pm = "None"
            THEN last.ret = "False" /\ last.cmds = <<>>
            ELSE /\ Len(last.cmds) = 1
                 /\ last.cmds[1].cmd.text = (IF clean THEN "npm ci" ELSE InstallCmd(pm).text)
                 /\ last.ret = last.cmds[1].ret

\* C6 amended: with a package manager resolved, npm ci is attempted first iff
\* the manager is npm and package-lock.json exists; the generic install is
\* issued iff the clean install was not attempted or returned failure, so both
\* are executed only after npm ci failed; the strategy's result is the result
\* of the last install command issued.  With none resolved the strategy
\* returns failure and executes nothing.
C6_InstallWithFallback ==
    last.fn = "setup_node" =>
        LET pm      == get_package_manager(files, tools)
            clean   == pm = "npm" /\ "package-lock.json" \in files
            n       == Len(last.cmds)
            generic == \E i \in 1..n : last.cmds[i].cmd.text = InstallCmd(pm).text
        IN  IF pm = "None"
            THEN last.ret = "False" /\ last.cmds = <<>>
            ELSE /\ n \in {1, 2}
                 /\ clean <=> last.cmds[1].cmd.text = "npm ci"
                 /\ \A i \in 2..n : last.cmds[i].cmd.text # "npm ci"
                 /\ generic <=> (~clean \/ last.cmds[1].ret = "False")
                 /\ n = 2 => clean /\ last.cmds[1].ret = "False"
                 /\ last.ret = last.cmds[n].ret

C6_Witness ==
    /\ last.fn = "setup_node"
    /\ Len(last.cmds) = 2
    /\ last.cmds[1].cmd.text = "npm ci" /\ last.cmds[1].ret = "False"
    /\ last.cmds[2].cmd.text = "npm install"
    /\ last.ret = "True"

\* C7: with flutter available, flutter pub get is attempted; the build_runner
\* step is attempted iff pubspec.yaml holds "build_runner:" and dry_run is off,
\* also after a failed pub get; the strategy returns True iff every attempted
\* step succeeded.  Without flutter nothing is attempted and the result is
\* False.
C7_FlutterSteps ==
    last.fn = "setup_flutter" =>
        LET n == Len(last.cmds)
        IN  IF "flutter" \notin tools
            THEN last.ret = "False" /\ n = 0
            ELSE /\ n >= 1 /\ last.cmds[1].cmd.text = "flutter pub get"
                 /\ (\E i \in 1..n : last.cmds[i].cmd.text = BuildRunnerCmd.text)
                      <=> (pubspec = "with_build_runner" /\ ~config.dry_run)
                 /\ last.ret = "True" <=> \A i \in 1..n : last.cmds[i].ret = "True"

\* C8: in a run that reaches the banner, every setup invocation precedes every
\* formatting invocation, setup strategies were invoked in detection order,
\* and the formatting strategy of each detected ecosystem that has one was
\* invoked, whatever its setup returned, in detection order.
C8_PhaseOrder ==
    LET has_formatter(l) == l \in {"python", "node", "flutter"}
    IN  /\ fmtLog # <<>> => pc \in {"exit", "done", "crashed"}
        /\ IsPrefix(Names(setupLog), detected)
        /\ pc = "exit" => Names(fmtLog) = SelectSeq(detected, has_formatter)

\* C9: an ecosystem is in the detection result iff one of its marker paths
\* exists; the result has no duplicates and is in table order; and a result
\* computed after marker files were added keeps the ecosystems of the previous
\* result, in the same relative order.
C9_Detection ==
    last.fn = "detect_languages" =>
        LET n        == Len(PROJECT_DETECTORS)
            rank(l)  == CHOOSE i \in 1..n : PROJECT_DETECTORS[i].lang = l
            pos(q, l) == CHOOSE i \in 1..Len(q) : q[i] = l
        IN  /\ \A i \in 1..n :
                 PROJECT_DETECTORS[i].lang \in Range(detected)
                   <=> Range(PROJECT_DETECTORS[i].files) \cap last.pre # {}
            /\ Cardinality(Range(detected)) = Len(detected)
            /\ \A i, j \in 1..Len(detected) :
                 i < j => rank(detected[i]) < rank(detected[j])
            /\ Range(last.prev) \subseteq Range(detected)
            /\ \A i, j \in 1..Len(last.prev) :
                 i < j => pos(detected, last.prev[i]) < pos(detected, last.prev[j])

C9_Witness ==
    /\ last.fn = "detect_languages"
    /\ last.prev = <<"node", "git">>
    /\ detected = <<"node", "python", "git">>
    /\ last.pre \cap {"requirements.txt", "pyproject.toml", "setup.py"} = {"setup.py"}

\* C10: a setup_python call that finds .venv issues no venv-creation command
\* and goes straight to dependency installation; and once a creation command
\* has really run and succeeded, no later call issues another one.
C10_VenvIdempotent ==
    /\ (last.fn = "setup_python" /\ ".venv" \in last.pre) =>
         /\ \A i \in 1..Len(last.cmds) : last.cmds[i].cmd.text # VenvCmd.text
         /\ Len(last.cmds) =
              IF {"requirements.txt", "pyproject.toml"} \cap last.pre # {} THEN 1 ELSE 0
    /\ \A i \in 1..Len(createLog) :
         (createLog[i].spawned = 1 /\ createLog[i].ret = "True") => i = Len(createLog)

C10_Witness ==
    /\ last.fn = "setup_python"
    /\ runs = 2
    /\ Len(createLog) = 1 /\ createLog[1].spawned = 1 /\ createLog[1].ret = "True"
    /\ ".venv" \in last.pre
    /\ Len(last.cmds) = 1

====
